---------------------------- MODULE Spec2Model ----------------------------
(***************************************************************************)
(* RankingPyEnvironment (tf_agents/bandits/environments/                   *)
(* ranking_environment.py): a ranking bandit environment with cascading    *)
(* feedback and two click models.                                          *)
(*                                                                         *)
(* Two specifications are given.                                           *)
(*   Spec      : one environment instance driven through its public        *)
(*               interface: construction, reset(), step(action).           *)
(*   SpecApply : one call of _apply_action on a constructed environment    *)
(*               holding some round's observation; the call's arguments    *)
(*               (the action, the categorical draws) are part of the       *)
(*               initial state, so that the result can be compared with    *)
(*               them.                                                     *)
(* Arrays are sequences (1-based); every index the program computes or     *)
(* receives is kept 0-based, as in the source.                             *)
(***************************************************************************)
EXTENDS Integers, Sequences, FiniteSets, TLC

VARIABLES
  phase,        \* "new": before __init__; "ready": instance exists; "failed": __init__ raised
  cfg,          \* the constructor's arguments, as stored on the instance
  gpos,         \* number of calls made to global_sampling_fn (mod its period)
  ipos,         \* number of calls made to item_sampling_fn (mod its period)
  observation,  \* self._observation
  started,      \* PyEnvironment._current_time_step is not None
  result,       \* outcome of the last call: exception kind or the feedback returned
  generated,    \* number of _observe calls so far
  applied,      \* number of _apply_action calls that returned feedback
  lastUsed,     \* generation number of the observation read by the last such call
  argAction,    \* SpecApply: the action passed to _apply_action
  argSample     \* SpecApply: the outcomes np.random.choice returns, one per batch element

vars == <<phase, cfg, gpos, ipos, observation, started, result, generated,
          applied, lastUsed, argAction, argSample>>

---------------------------------------------------------------------------
(* Bounds of the model *)

\* batch_size * num_slots (the number of entries of an action) is at most this
MaxActionSize == 2
\* num_items ranges over 1..MaxItems
MaxItems == 2
\* at most this many observations are generated in one behaviour
MaxGen == 3

---------------------------------------------------------------------------
(* Enumerations, lines 54-72 *)

FeedbackModel_UNKNOWN == 0
FeedbackModel_CASCADING == 1
ClickModel_UNKNOWN == 0
ClickModel_GHOST_ACTIONS == 1
ClickModel_DISTANCE_BASED == 2

\* Optional[float]: None is the empty tuple, a number x is <<x>>
None == <<>>
Some(x) == <<x>>
ValueOf(opt) == opt[1]

---------------------------------------------------------------------------
(* Inputs: the caller-supplied samplers, weight matrix and thresholds *)

\* global_sampling_fn: a generator that walks this cycle, one vector per call
GlobalStream == << <<1, 0>>, <<0, 1>>, <<1, 1>> >>
\* item_sampling_fn: a generator that walks this cycle, one vector per call
ItemStream == << <<1, 0>>, <<0, 1>>, <<1, 1>>, <<-1, 2>> >>
\* scores_weight_matrix, shape [item_dim, global_dim]
WeightMatrices == { << <<1, 2>>, <<0, -1>> >> }
DistanceThresholds == {None, Some(0), Some(1)}
FeedbackModels == {FeedbackModel_UNKNOWN, FeedbackModel_CASCADING}
ClickModels == {ClickModel_UNKNOWN, ClickModel_GHOST_ACTIONS, ClickModel_DISTANCE_BASED}

global_sampling_fn(pos) == GlobalStream[(pos % Len(GlobalStream)) + 1]
item_sampling_fn(pos) == ItemStream[(pos % Len(ItemStream)) + 1]

\* the arguments __init__ is called with
ConstructorArgs ==
  { a \in [ num_items : 1..MaxItems,
            num_slots : 1..MaxActionSize,
            batch_size : 1..MaxActionSize,
            scores_weight_matrix : WeightMatrices,
            feedback_model : FeedbackModels,
            click_model : ClickModels,
            distance_threshold : DistanceThresholds ] :
      a.batch_size * a.num_slots <= MaxActionSize }

NoConfig == [ num_items |-> 0, num_slots |-> 0, batch_size |-> 0,
              scores_weight_matrix |-> <<>>,
              feedback_model |-> FeedbackModel_UNKNOWN,
              click_model |-> ClickModel_UNKNOWN,
              distance_threshold |-> None ]

\* self._global_dim, self._item_dim: lines 147-148, read off one sample each
global_dim == Len(global_sampling_fn(0))
item_dim == Len(item_sampling_fn(0))

---------------------------------------------------------------------------
(* Results of calls *)

NoResult == [kind |-> "none", batch_dim |-> 0, gen |-> 0,
             chosen_index |-> <<>>, chosen_value |-> <<>>]

Raised(exc, dim) == [kind |-> exc, batch_dim |-> dim, gen |-> 0,
                     chosen_index |-> <<>>, chosen_value |-> <<>>]

Unset == [gen |-> 0, global |-> <<>>, per_arm |-> <<>>]

---------------------------------------------------------------------------
(* numpy helpers *)

RECURSIVE DotFrom(_, _, _)
DotFrom(u, v, i) ==
  IF i > Len(u) THEN 0 ELSE u[i] * v[i] + DotFrom(u, v, i + 1)

\* np.matmul of a vector and a matrix: (x . M)[g] = sum_i x[i] * M[i][g]
VecMat(x, M) ==
  [g \in 1..global_dim |-> DotFrom(x, [i \in 1..Len(x) |-> M[i][g]], 1)]

\* np.argmax: the first index (0-based) holding the maximum
RECURSIVE ArgMaxScan(_, _, _)
ArgMaxScan(v, i, best) ==
  IF i > Len(v) THEN best - 1
  ELSE IF v[i] > v[best] THEN ArgMaxScan(v, i + 1, i)
  ELSE ArgMaxScan(v, i + 1, best)

ArgMaxLast(v) ==
  (CHOOSE i \in 1..Len(v) :
      /\ \A j \in 1..Len(v) : v[j] <= v[i]
      /\ \A j \in (i+1)..Len(v) : v[j] < v[i]) - 1

ArgMax(v) == ArgMaxScan(v, 2, 1)

\* an index into an axis of length n: numpy accepts -n..n-1 and wraps negatives
IndexInBounds(i, n) == i >= -n /\ i < n
WrapIndex(i, n) == IF i < 0 THEN i + n ELSE i

\* astype(float32) of a boolean: True is 1.0, False is 0.0
Float32OfBool(b) == IF b THEN 1 ELSE 0

---------------------------------------------------------------------------
(* _observe, lines 185-193 *)

ObserveCached(c, gp, ip, old, n) ==
  IF old.gen = 0
  THEN [ gen |-> n,
         global |-> [b \in 1..c.batch_size |-> global_sampling_fn(gp + b - 1)],
         per_arm |-> [b \in 1..c.batch_size |->
                        [i \in 1..c.num_items |->
                           item_sampling_fn(ip + (b - 1) * c.num_items + i - 1)]] ]
  ELSE old

\* the observation stored by the n-th call of _observe, the samplers having
\* been called gp and ip times before
_observe(c, gp, ip, old, n) ==
  [ gen |-> n,
    global |-> [b \in 1..c.batch_size |-> global_sampling_fn(gp + b - 1)],
    per_arm |-> [b \in 1..c.batch_size |->
                   [i \in 1..c.num_items |->
                      item_sampling_fn(ip + (b - 1) * c.num_items + i - 1)]] ]

AfterObserveG(c, gp) == (gp + c.batch_size) % Len(GlobalStream)
AfterObserveI(c, ip) == (ip + c.batch_size * c.num_items) % Len(ItemStream)

---------------------------------------------------------------------------
(* _batched_inner_product, lines 232-240 *)

_batched_inner_product(c, global_obs, item_obs) ==
  [b \in 1..c.batch_size |->
     [n \in 1..Len(item_obs[b]) |->
        DotFrom(VecMat(item_obs[b][n], c.scores_weight_matrix), global_obs[b], 1)]]

---------------------------------------------------------------------------
(* _choose_items_distance_based, lines 263-268 *)

ChooseDistanceNoThreshold(c, global_obs, slotted_items) ==
  LET scores == _batched_inner_product(c, global_obs, slotted_items)
  IN  [b \in 1..c.batch_size |-> ArgMax(scores[b])]

_choose_items_distance_based(c, global_obs, slotted_items) ==
  LET scores == _batched_inner_product(c, global_obs, slotted_items)
      withThreshold == [b \in 1..c.batch_size |->
                          Append(scores[b], 1 * ValueOf(c.distance_threshold))]
  IN  [b \in 1..c.batch_size |-> ArgMax(withThreshold[b])]

---------------------------------------------------------------------------
(* _choose_items_ghost_actions, lines 242-261 *)

\* The logistic weights 1 / (1 + exp(-x)) are positive, so each of the
\* num_slots + item_dim outcomes has a positive probability: np.random.choice
\* may return any of them for any batch element.
GhostOutcomes(c) == 0..(c.num_slots + item_dim - 1)

Min(a, b) == IF a < b THEN a ELSE b

ChooseGhostNoClip(c, global_obs, slotted_items, sample) ==
  [b \in 1..c.batch_size |-> sample[b]]

_choose_items_ghost_actions(c, global_obs, slotted_items, sample) ==
  [b \in 1..c.batch_size |-> Min(sample[b], c.num_slots)]

---------------------------------------------------------------------------
(* _apply_action, lines 195-216 *)

ChosenValuesLeq(c, chosen_items) ==
  [b \in 1..Len(chosen_items) |-> Float32OfBool(chosen_items[b] <= c.num_slots)]

\* lines 214-215
ChosenValues(c, chosen_items) ==
  [b \in 1..Len(chosen_items) |-> Float32OfBool(chosen_items[b] < c.num_slots)]

\* line 201: item_obs[np.expand_dims(batch_size_range, axis=1), action]
Gather(c, item_obs, action) ==
  [b \in 1..c.batch_size |->
     [j \in 1..Len(action[b]) |->
        item_obs[b][WrapIndex(action[b][j], c.num_items) + 1]]]

Cascading(c, obs, dim, chosen_items) ==
  \* np.array(chosen_items, dtype=int32) keeps every value: they are at most
  \* num_slots + item_dim
  [kind |-> "ok", batch_dim |-> dim, gen |-> obs.gen,
   chosen_index |-> chosen_items, chosen_value |-> ChosenValues(c, chosen_items)]

DispatchFallback(c, obs, action, slotted_items, sample) ==
  IF c.click_model = ClickModel_DISTANCE_BASED
  THEN Cascading(c, obs, Len(action),
                 _choose_items_distance_based(c, obs.global, slotted_items))
  ELSE Cascading(c, obs, Len(action),
                 _choose_items_ghost_actions(c, obs.global, slotted_items, sample))

\* lines 202-216: the click model chooses, the feedback model encodes
Dispatch(c, obs, action, slotted_items, sample) ==
  IF c.click_model = ClickModel_GHOST_ACTIONS
  THEN Cascading(c, obs, Len(action),
                 _choose_items_ghost_actions(c, obs.global, slotted_items, sample))
  ELSE IF c.click_model = ClickModel_DISTANCE_BASED
  THEN Cascading(c, obs, Len(action),
                 _choose_items_distance_based(c, obs.global, slotted_items))
  ELSE Raised("NotImplementedError", Len(action))

\* lines 198-216: read the stored observation, gather the slate, dispatch
ApplyBody(c, obs, action, sample) ==
  IF obs = Unset THEN Raised("AttributeError", Len(action))
  ELSE IF \E b \in 1..c.batch_size : \E j \in 1..Len(action[b]) :
             ~IndexInBounds(action[b][j], c.num_items)
       THEN Raised("IndexError", Len(action))
  ELSE Dispatch(c, obs, action, Gather(c, obs.per_arm, action), sample)

ApplyActionNoBatchCheck(c, obs, action, sample) ==
  IF Len(action) # c.batch_size THEN Raised("IndexError", Len(action))
  ELSE ApplyBody(c, obs, action, sample)

_apply_action(c, obs, action, sample) ==
  IF Len(action) # c.batch_size THEN Raised("ValueError", Len(action))
  ELSE ApplyBody(c, obs, action, sample)

---------------------------------------------------------------------------
(* The arguments step() and _apply_action are called with *)

\* entries of an action: the item indices, one below and one above
ActionEntries(c) == -1..c.num_items

\* arrays of shape [batch_size, num_slots]
SizedActions(c) == [1..c.batch_size -> [1..c.num_slots -> ActionEntries(c)]]

\* arrays whose leading dimension is batch_size - 1 or batch_size + 1
MissizedActions(c) ==
  { [b \in 1..d |-> [j \in 1..c.num_slots |-> 0]] :
        d \in {c.batch_size - 1, c.batch_size + 1} }

Actions(c) == SizedActions(c) \cup MissizedActions(c)

Samples(c) ==
  IF c.click_model = ClickModel_GHOST_ACTIONS
  THEN [1..c.batch_size -> GhostOutcomes(c)]
  ELSE {[b \in 1..c.batch_size |-> 0]}

---------------------------------------------------------------------------
(* __init__, lines 128-176 *)

InitNoAssert(a) ==
  IF a.feedback_model # FeedbackModel_CASCADING
  THEN [phase |-> "failed", exc |-> "NotImplementedError", sampled |-> 1]
  ELSE [phase |-> "ready", exc |-> "none", sampled |-> 1]

\* what the constructor ends in, and how often it has called each sampler
__init__(a) ==
  IF a.click_model = ClickModel_DISTANCE_BASED /\ a.distance_threshold = None
  THEN [phase |-> "failed", exc |-> "AssertionError", sampled |-> 0]
  ELSE IF a.feedback_model # FeedbackModel_CASCADING
  THEN [phase |-> "failed", exc |-> "NotImplementedError", sampled |-> 1]
  ELSE [phase |-> "ready", exc |-> "none", sampled |-> 1]

Construct ==
  /\ phase = "new"
  /\ \E a \in ConstructorArgs :
       LET r == __init__(a)
       IN  /\ phase' = r.phase
           /\ cfg' = a
           /\ gpos' = r.sampled
           /\ ipos' = r.sampled
           /\ result' = IF r.exc = "none" THEN NoResult ELSE Raised(r.exc, 0)
  /\ UNCHANGED <<observation, started, generated, applied, lastUsed,
                 argAction, argSample>>

---------------------------------------------------------------------------
(* reset() and step(), with BanditPyEnvironment._reset / _step and       *)
(* PyEnvironment.step underneath RankingPyEnvironment._step (218-230)    *)

\* BanditPyEnvironment._reset: ts.restart(self._observe())
DoReset ==
  /\ observation' = _observe(cfg, gpos, ipos, observation, generated + 1)
  /\ gpos' = AfterObserveG(cfg, gpos)
  /\ ipos' = AfterObserveI(cfg, ipos)
  /\ generated' = generated + 1
  /\ started' = TRUE
  /\ result' = Raised("restart", 0)
  /\ UNCHANGED <<phase, cfg, applied, lastUsed, argAction, argSample>>

Reset ==
  /\ phase = "ready"
  /\ generated < MaxGen
  /\ DoReset

\* _step, lines 222-230: the reward's entries are cast to the reward spec's
\* dtypes (int32, float32), which they already have
CastReward(r) ==
  [r EXCEPT !.chosen_value = [b \in 1..Len(r.chosen_value) |->
                                Float32OfBool(r.chosen_value[b] = 1)]]

\* BanditPyEnvironment._step: reward = _apply_action(action); then _observe()
DoStep(action, sample) ==
  LET r == _apply_action(cfg, observation, action, sample)
  IN  IF r.kind = "ok"
      THEN /\ result' = CastReward(r)
           /\ applied' = applied + 1
           /\ lastUsed' = r.gen
           /\ observation' = _observe(cfg, gpos, ipos, observation, generated + 1)
           /\ gpos' = AfterObserveG(cfg, gpos)
           /\ ipos' = AfterObserveI(cfg, ipos)
           /\ generated' = generated + 1
           /\ UNCHANGED <<phase, cfg, started, argAction, argSample>>
      ELSE /\ result' = r
           /\ UNCHANGED <<phase, cfg, gpos, ipos, observation, started, generated,
                          applied, lastUsed, argAction, argSample>>

\* PyEnvironment.step: a first step() without a current time step resets
Step ==
  /\ phase = "ready"
  /\ generated < MaxGen
  /\ \E action \in Actions(cfg) : \E sample \in Samples(cfg) :
       IF started THEN DoStep(action, sample) ELSE DoReset

Init ==
  /\ phase = "new"
  /\ cfg = NoConfig
  /\ gpos = 0
  /\ ipos = 0
  /\ observation = Unset
  /\ started = FALSE
  /\ result = NoResult
  /\ generated = 0
  /\ applied = 0
  /\ lastUsed = 0
  /\ argAction = <<>>
  /\ argSample = <<>>

Next == Construct \/ Reset \/ Step

Spec == Init /\ [][Next]_vars

---------------------------------------------------------------------------
(* One call of _apply_action *)

ReadyConfigs == {a \in ConstructorArgs : __init__(a).phase = "ready"}

\* sampler positions before the r-th _observe: one call each in __init__,
\* then batch_size (batch_size * num_items) calls per _observe
GlobalCallsBefore(c, r) == (1 + (r - 1) * c.batch_size) % Len(GlobalStream)
ItemCallsBefore(c, r) == (1 + (r - 1) * c.batch_size * c.num_items) % Len(ItemStream)

\* the environment after its r-th observation (r resets), and the arguments
\* of the call to come
InitApply ==
  \E c \in ReadyConfigs : \E r \in 1..MaxGen :
    /\ phase = "ready"
    /\ cfg = c
    /\ observation = _observe(c, GlobalCallsBefore(c, r), ItemCallsBefore(c, r), Unset, r)
    /\ gpos = AfterObserveG(c, GlobalCallsBefore(c, r))
    /\ ipos = AfterObserveI(c, ItemCallsBefore(c, r))
    /\ started = TRUE
    /\ result = Raised("restart", 0)
    /\ generated = r
    /\ applied = 0
    /\ lastUsed = 0
    /\ argAction \in Actions(c)
    /\ argSample \in Samples(c)

ApplyCall ==
  /\ phase = "ready"
  /\ argSample # <<>>
  /\ result.kind = "restart"
  /\ result' = _apply_action(cfg, observation, argAction, argSample)
  /\ UNCHANGED <<phase, cfg, gpos, ipos, observation, started, generated,
                 applied, lastUsed, argAction, argSample>>

NextApply == ApplyCall

SpecApply == InitApply /\ [][NextApply]_vars

---------------------------------------------------------------------------
(* Properties *)

Returned == result.kind = "ok"
Batch == 1..cfg.batch_size
Slots == 1..cfg.num_slots

RECURSIVE SumTo(_, _)
SumTo(f, n) == IF n = 0 THEN 0 ELSE f[n] + SumTo(f, n - 1)

\* item . W . global as a double sum
BilinearScore(item, W, global) ==
  SumTo([i \in 1..Len(item) |->
           SumTo([g \in 1..Len(global) |-> item[i] * W[i][g] * global[g]],
                 Len(global))],
        Len(item))

\* SpecApply: every entry of the action passed is an index of the item pool
ValidAction ==
  /\ Len(argAction) = cfg.batch_size
  /\ \A b \in Batch : \A j \in Slots : argAction[b][j] \in 0..(cfg.num_items - 1)

\* SpecApply: the score of the pool item that argAction[b][j] names
SlotScore(b, j) ==
  BilinearScore(observation.per_arm[b][WrapIndex(argAction[b][j], cfg.num_items) + 1],
                cfg.scores_weight_matrix, observation.global[b])

\* SpecApply: the num_slots + 1 values of batch element b
ValuesOf(b) ==
  [j \in 1..(cfg.num_slots + 1) |->
     IF j <= cfg.num_slots THEN SlotScore(b, j) ELSE ValueOf(cfg.distance_threshold)]

\* C1: under either click model and for every batch element, the feedback
\* returned by _apply_action has chosen_index in 0..num_slots, and
\* chosen_value is 1 exactly when chosen_index < num_slots and 0 otherwise.
C1_FeedbackWellFormed ==
  Returned =>
    /\ Len(result.chosen_index) = cfg.batch_size
    /\ Len(result.chosen_value) = cfg.batch_size
    /\ \A b \in Batch :
         /\ result.chosen_index[b] \in 0..cfg.num_slots
         /\ (result.chosen_value[b] = 1) <=> (result.chosen_index[b] < cfg.num_slots)
         /\ (result.chosen_value[b] = 0) <=> (result.chosen_index[b] = cfg.num_slots)

\* a batch in which one element clicked a slot and another did not
C1_Witness ==
  /\ Returned
  /\ \E b \in Batch : result.chosen_index[b] < cfg.num_slots /\ result.chosen_value[b] = 1
  /\ \E b \in Batch : result.chosen_index[b] = cfg.num_slots /\ result.chosen_value[b] = 0

\* C2: distance-based, for every batch element: if the score of every item
\* of the slate is strictly below distance_threshold, the chosen index is
\* num_slots.
C2_AllBelowThresholdNoClick ==
  (Returned /\ cfg.click_model = ClickModel_DISTANCE_BASED) =>
    \A b \in Batch :
      (\A j \in Slots : SlotScore(b, j) < ValueOf(cfg.distance_threshold))
        => result.chosen_index[b] = cfg.num_slots

\* two slots, both scoring below the threshold
C2_Witness ==
  /\ Returned
  /\ ValidAction
  /\ cfg.click_model = ClickModel_DISTANCE_BASED
  /\ cfg.num_slots >= 2
  /\ \E b \in Batch :
       /\ \A j \in Slots : SlotScore(b, j) < ValueOf(cfg.distance_threshold)
       /\ result.chosen_index[b] = cfg.num_slots

\* C3: constructing with click_model = DISTANCE_BASED and
\* distance_threshold = None raises: no instance results, no sampler has been
\* called, and no observation is generated nor action applied afterwards.
C3_MissingThresholdFailsConstruction ==
  (phase # "new" /\ cfg.click_model = ClickModel_DISTANCE_BASED
                 /\ cfg.distance_threshold = None) =>
    /\ phase = "failed"
    /\ result.kind = "AssertionError"
    /\ gpos = 0 /\ ipos = 0
    /\ observation = Unset
    /\ generated = 0
    /\ applied = 0

C3_Witness ==
  /\ phase = "failed"
  /\ cfg.click_model = ClickModel_DISTANCE_BASED
  /\ cfg.distance_threshold = None
  /\ cfg.feedback_model = FeedbackModel_CASCADING
  /\ result.kind = "AssertionError"

EnvState == <<phase, cfg, gpos, ipos, observation, started, generated, applied, lastUsed>>

\* C4: a step whose action's leading dimension differs from batch_size
\* raises ValueError, returns no feedback and leaves the configuration, the
\* stored observation and the samplers as they were, so that the next call
\* starts from the state the failed one started from.
C4_BatchMismatchRejected ==
  [][ (phase' = "ready" /\ result'.kind \notin {"none", "restart"}
         /\ result'.batch_dim # cfg'.batch_size)
        => /\ result'.kind = "ValueError"
           /\ result'.chosen_index = <<>>
           /\ result'.chosen_value = <<>>
           /\ EnvState' = EnvState ]_vars

\* a failed call between two successful ones
C4_Witness ==
  /\ result.kind = "ValueError"
  /\ result.batch_dim > cfg.batch_size
  /\ applied >= 1
  /\ observation # Unset

\* C5: no feedback is returned under an unsupported variant: a
\* feedback_model other than CASCADING makes construction fail, and a
\* click_model other than GHOST_ACTIONS or DISTANCE_BASED never yields
\* feedback from an action application.
C5_NoFeedbackWhenUnsupported ==
  /\ (phase # "new" /\ cfg.feedback_model # FeedbackModel_CASCADING)
       => (phase = "failed" /\ ~Returned /\ applied = 0)
  /\ (phase # "new"
        /\ cfg.click_model \notin {ClickModel_GHOST_ACTIONS, ClickModel_DISTANCE_BASED})
       => (~Returned /\ applied = 0)

\* an environment with an unknown click model has been stepped
C5_Witness ==
  /\ phase = "ready"
  /\ cfg.click_model = ClickModel_UNKNOWN
  /\ result.kind = "NotImplementedError"
  /\ result.batch_dim = cfg.batch_size

\* C6 as stated: in a constructed environment, distance_threshold is set
\* if and only if click_model is DISTANCE_BASED.
C6_ThresholdIffDistanceBased ==
  phase = "ready" =>
    ((cfg.distance_threshold # None) <=> (cfg.click_model = ClickModel_DISTANCE_BASED))

\* C6 amended: in a constructed environment, click_model = DISTANCE_BASED
\* implies that distance_threshold is set; with another click model the
\* threshold may be set or not.
C6_DistanceBasedHasThreshold ==
  (phase = "ready" /\ cfg.click_model = ClickModel_DISTANCE_BASED)
    => cfg.distance_threshold # None

C6_Witness ==
  /\ phase = "ready"
  /\ cfg.click_model = ClickModel_DISTANCE_BASED
  /\ cfg.distance_threshold # None
  /\ Returned

C8_FeedbackOnlyForIndicesInRange ==
  Returned =>
    \A b \in Batch : \A j \in Slots : argAction[b][j] \in 0..(cfg.num_items - 1)

C10_GhostOutcomeClipped ==
  (Returned /\ cfg.click_model = ClickModel_GHOST_ACTIONS) =>
    \A b \in Batch :
      LET k == argSample[b]
      IN  /\ k \in 0..(cfg.num_slots + item_dim - 1)
          /\ (k < cfg.num_slots) => (result.chosen_index[b] = k)
          /\ (k >= cfg.num_slots) => (result.chosen_index[b] = cfg.num_slots)
          /\ result.chosen_index[b] \in 0..cfg.num_slots

\* the last ghost item is drawn for one element, a real slot for another
C10_Witness ==
  /\ Returned
  /\ cfg.click_model = ClickModel_GHOST_ACTIONS
  /\ \E b \in Batch : argSample[b] = cfg.num_slots + item_dim - 1
                       /\ argSample[b] > cfg.num_slots
  /\ \E b \in Batch : argSample[b] < cfg.num_slots

=============================================================================
